---- MODULE Spec2Model ----
(***************************************************************************)
(* A model of main.py: the EAN-13 validator (calculate_ean_checksum,       *)
(* ean_is_valid), the streaming tokenizer (StdinLineIterator), the column  *)
(* locator (get_ean_column_index), the row classifier (line_is_valid) and  *)
(* the driver loop (process_stdin).                                        *)
(*                                                                         *)
(* A Python str is a sequence of one-character strings.  A Python          *)
(* exception leaving a function is the outcome value naming it.            *)
(***************************************************************************)
EXTENDS Integers, Sequences, FiniteSets, TLC

\* ------------------------------------------------------------ bounds

\* longest string handed to ean_is_valid by the validator harness
MaxLen == 15
\* most characters other than "0" in such a string
MaxNonZero == 2
\* most lines written to the standard input of process_stdin
MaxLines == 3
\* most texts written to the standard input of the tokenizer harness
MaxFeeds == 5
\* most StopIteration the tokenizer harness asks for
MaxStops == 2

\* ------------------------------------------------------- characters

NL == "\n"
QUOTE == "\""
COMMA == ","
SPACE == " "
\* U+00B2 SUPERSCRIPT TWO: str.isdigit() is True for it, int() rejects it
SUP2 == "sup2"

DecimalDigits == {"0", "1", "2", "3", "4", "5", "6", "7", "8", "9"}

\* what str.strip() removes from both ends
Whitespace == {SPACE, NL, "\t", "\r"}

\* Python outcomes of a call that returns a bool or raises
PyTrue == "True"
PyFalse == "False"
ValueError == "ValueError"
AssertionError == "AssertionError"

\* ---------------------------------------------------- str built-ins

\* str.isdigit(): non-empty and every character is a digit character,
\* which includes digit characters that are not decimal (SUP2)
isdigit(s) ==
    /\ Len(s) > 0
    /\ \A i \in 1..Len(s) : s[i] \in DecimalDigits \cup {SUP2}

\* int(d) on one character succeeds for the decimal digits only
int_raises(d) == d \notin DecimalDigits

int(d) ==
    CASE d = "0" -> 0 [] d = "1" -> 1 [] d = "2" -> 2 [] d = "3" -> 3
      [] d = "4" -> 4 [] d = "5" -> 5 [] d = "6" -> 6 [] d = "7" -> 7
      [] d = "8" -> 8 [] d = "9" -> 9

Zeros(n) == [i \in 1..n |-> "0"]

\* str.zfill(width): pad on the left with "0", after a leading sign if any
zfill(s, width) ==
    IF Len(s) >= width THEN s
    ELSE IF Len(s) > 0 /\ s[1] \in {"+", "-"}
         THEN <<s[1]>> \o Zeros(width - Len(s)) \o Tail(s)
         ELSE Zeros(width - Len(s)) \o s

RECURSIVE lstrip(_)
lstrip(s) ==
    IF Len(s) > 0 /\ s[1] \in Whitespace THEN lstrip(Tail(s)) ELSE s

RECURSIVE rstrip(_)
rstrip(s) ==
    IF Len(s) > 0 /\ s[Len(s)] \in Whitespace
    THEN rstrip(SubSeq(s, 1, Len(s) - 1))
    ELSE s

\* str.strip()
strip(s) == rstrip(lstrip(s))

\* str.replace('"', '')
replace_quotes(s) == SelectSeq(s, LAMBDA c : c # QUOTE)

\* set(s)
set(s) == {s[i] : i \in 1..Len(s)}

\* --------------------------------------------- calculate_ean_checksum

WeightSwapped(index) == IF index % 2 = 0 THEN 3 ELSE 1

\* the weight of the digit at 0-based position index
Weight(index) == IF index % 2 = 0 THEN 1 ELSE 3

\* the loop of calculate_ean_checksum over enumerate(digits)
RECURSIVE total_sum(_, _)
total_sum(digits, n) ==
    IF n = 0 THEN 0
    ELSE total_sum(digits, n - 1) + digits[n] * Weight(n - 1)

checksum_assertion_13(digits) == Len(digits) = 13

\* assert len(digits) == 12
checksum_assertion(digits) == Len(digits) = 12

calculate_ean_checksum(digits) ==
    LET total == total_sum(digits, Len(digits)) % 10
    IN  IF total = 0 THEN 0 ELSE 10 - total

\* ------------------------------------------------------- ean_is_valid

TooShortBelow7(ean_code) == Len(ean_code) < 7

\* len(ean_code) < 8: rejected without padding
TooShort(ean_code) == Len(ean_code) < 8

PrefixHasZero(prefix) == "0" \in set(prefix)

\* the prefix of an over-long code is accepted when it is all "0"
PrefixAllowed(prefix) == set(prefix) = {"0"}

RECURSIVE ean_is_valid(_)
ean_is_valid(ean_code) ==
    IF TooShort(ean_code) THEN PyFalse
    ELSE IF Len(ean_code) < 13 THEN ean_is_valid(zfill(ean_code, 13))
    ELSE IF Len(ean_code) > 13 THEN
        LET prefix == SubSeq(ean_code, 1, Len(ean_code) - 13)
            rest == SubSeq(ean_code, Len(ean_code) - 12, Len(ean_code))
        IN  IF ~PrefixAllowed(prefix) THEN PyFalse ELSE ean_is_valid(rest)
    ELSE IF ~isdigit(ean_code) THEN PyFalse
    ELSE IF Len(ean_code) # 13 THEN AssertionError
    ELSE IF \E i \in 1..Len(ean_code) : int_raises(ean_code[i]) THEN ValueError
    ELSE
        LET digits == [i \in 1..Len(ean_code) |-> int(ean_code[i])]
            checksum == digits[Len(digits)]
            first12 == SubSeq(digits, 1, Len(digits) - 1)
        IN  IF ~checksum_assertion(first12) THEN AssertionError
            ELSE IF checksum = calculate_ean_checksum(first12)
                 THEN PyTrue ELSE PyFalse

\* ------------------------------------------------ get_ean_column_index

\* the "absent" column index (Python None)
None == -1

\* the loop's early return: a second matching column
Multiple == -2

RECURSIVE column_loop_one_based(_, _, _, _)
column_loop_one_based(fields, name, i, found) ==
    IF i > Len(fields) THEN found
    ELSE IF strip(fields[i]) # name
         THEN column_loop_one_based(fields, name, i + 1, found)
    ELSE IF found = None THEN column_loop_one_based(fields, name, i + 1, i)
    ELSE Multiple

\* for index, column_name in enumerate(fields): the loop from position i
\* (1-based) with the index found so far; "multiple" is the early return
RECURSIVE column_loop(_, _, _, _)
column_loop(fields, name, i, found) ==
    IF i > Len(fields) THEN found
    ELSE IF strip(fields[i]) # name THEN column_loop(fields, name, i + 1, found)
    ELSE IF found = None THEN column_loop(fields, name, i + 1, i - 1)
    ELSE Multiple

get_ean_column_index_uncounted(fields, delim, name) ==
    LET found == column_loop(fields, name, 1, None)
    IN  IF found = Multiple THEN [index |-> None, count |-> 0, raised |-> ""]
        ELSE IF found # None THEN [index |-> found, count |-> 0, raised |-> ""]
        ELSE IF ~(Len(fields) > 0)
             THEN [index |-> None, count |-> 0, raised |-> AssertionError]
        ELSE LET v == ean_is_valid(strip(fields[1]))
             IN  IF v = PyTrue
                 THEN [index |-> 0, count |-> 0, raised |-> ""]
                 ELSE IF v = PyFalse
                 THEN [index |-> None, count |-> 0, raised |-> ""]
                 ELSE [index |-> None, count |-> 0, raised |-> v]

\* returns [index, count], or raises: [raised]
get_ean_column_index(fields, delim, name) ==
    LET found == column_loop(fields, name, 1, None)
    IN  IF found = Multiple THEN [index |-> None, count |-> 0, raised |-> ""]
        ELSE IF found # None THEN [index |-> found, count |-> 0, raised |-> ""]
        ELSE IF ~(Len(fields) > 0)
             THEN [index |-> None, count |-> 0, raised |-> AssertionError]
        ELSE LET v == ean_is_valid(strip(fields[1]))
             IN  IF v = PyTrue
                 THEN [index |-> 0, count |-> 1, raised |-> ""]
                 ELSE IF v = PyFalse
                 THEN [index |-> None, count |-> 0, raised |-> ""]
                 ELSE [index |-> None, count |-> 0, raised |-> v]

\* ------------------------------------------------------ line_is_valid

\* the row has no field at the column index
ShortRow(fields, index) == index >= Len(fields)

line_is_valid_keep_quotes(fields, delim, index) ==
    IF ShortRow(fields, index) THEN PyFalse
    ELSE ean_is_valid(strip(fields[index + 1]))

line_is_valid_short_true(fields, delim, index) ==
    IF ShortRow(fields, index) THEN PyTrue
    ELSE ean_is_valid(replace_quotes(strip(fields[index + 1])))

line_is_valid(fields, delim, index) ==
    IF ShortRow(fields, index) THEN PyFalse
    ELSE ean_is_valid(replace_quotes(strip(fields[index + 1])))

\* ------------------------------------------------------------- print

Digit(n) ==
    CASE n = 0 -> "0" [] n = 1 -> "1" [] n = 2 -> "2" [] n = 3 -> "3"
      [] n = 4 -> "4" [] n = 5 -> "5" [] n = 6 -> "6" [] n = 7 -> "7"
      [] n = 8 -> "8" [] n = 9 -> "9"

\* str(n) of a non-negative int
RECURSIVE str(_)
str(n) == IF n < 10 THEN <<Digit(n)>> ELSE str(n \div 10) \o <<Digit(n % 10)>>

\* f"{valid_count} {invalid_count}"
SummaryLine(v, i) == str(v) \o <<SPACE>> \o str(i)

\* the line _exit_on_invalid prints
ZeroZero == <<"0", SPACE, "0">>

\* ---------------------------------------------------------- state

VARIABLES
    ean_code,            \* validator harness: the string last handed to ean_is_valid
    result,              \* validator harness: what ean_is_valid returned for it
    stdin,               \* the characters written to standard input so far
    eof,                 \* standard input was closed by its writer
    fed,                 \* number of chunks written to standard input
    pos,                 \* number of characters of stdin the iterator consumed
    in_double_quotes,    \* StdinLineIterator.in_double_quotes
    last_line,           \* StdinLineIterator.last_line
    current_field,       \* __next__: local current_field
    accumulated_fields,  \* __next__: local accumulated_fields
    fields,              \* the row __next__ returned last (the loop variable)
    rows,                \* every row __next__ returned, in order
    stops,               \* number of StopIteration raised
    delimiter,           \* process_stdin: parameter delimiter
    ean_column_name,     \* process_stdin: parameter ean_column_name
    first_line,          \* process_stdin: local first_line
    ean_column_index,    \* process_stdin: local ean_column_index
    valid_count,         \* process_stdin: local valid_count
    invalid_count,       \* process_stdin: local invalid_count
    output,              \* the lines printed
    exit_status,         \* the process exit status, None while running
    error,               \* the exception that ended the process, "" if none
    pc                   \* where control is

eanVars == <<ean_code, result>>
inVars == <<stdin, eof, fed>>
tokVars == <<pos, in_double_quotes, last_line, current_field,
             accumulated_fields, fields, rows, stops>>
cfgVars == <<delimiter, ean_column_name>>
procVars == <<first_line, ean_column_index, valid_count, invalid_count,
              output, exit_status, error>>
vars == <<eanVars, inVars, tokVars, cfgVars, procVars, pc>>

\* ------------------------------------------------ validator harness

\* the characters the harness builds its strings from
EanChars == DecimalDigits \cup {"x", SUP2}

NonZeroCount(s) == Cardinality({i \in 1..Len(s) : s[i] # "0"})

\* StdinLineIterator.__init__ and the locals of process_stdin
InitProgram ==
    /\ stdin = <<>> /\ eof = FALSE /\ fed = 0
    /\ pos = 0
    /\ in_double_quotes = FALSE
    /\ last_line = FALSE
    /\ current_field = <<>>
    /\ accumulated_fields = <<>>
    /\ fields = <<>>
    /\ rows = <<>>
    /\ stops = 0
    /\ first_line = TRUE
    /\ ean_column_index = None
    /\ valid_count = 0
    /\ invalid_count = 0
    /\ output = <<>>
    /\ exit_status = None
    /\ error = ""
    /\ pc = "call"

InitEan ==
    /\ ean_code = <<>>
    /\ result = ean_is_valid(<<>>)
    /\ InitProgram
    /\ delimiter = COMMA
    /\ ean_column_name = <<"e", "a", "n">>

\* call ean_is_valid on the previous string extended by one character
Validate(c) ==
    /\ Len(ean_code) < MaxLen
    /\ NonZeroCount(Append(ean_code, c)) <= MaxNonZero
    /\ ean_code' = Append(ean_code, c)
    /\ result' = ean_is_valid(ean_code')
    /\ UNCHANGED <<inVars, tokVars, cfgVars, procVars, pc>>

NextEan == \E c \in EanChars : Validate(c)

SpecEan == InitEan /\ [][NextEan]_vars

\* ----------------------------------------------------- standard input

\* the iterator waits for its writer: everything written was consumed
NeedsInput == pc = "scan" /\ pos = Len(stdin) /\ ~eof

\* the writer writes one more line, ended by a newline or (the last line,
\* after which it closes the stream) not
WriteLine(line, terminated) ==
    /\ NeedsInput
    /\ fed < MaxLines
    /\ terminated \/ line # <<>>
    /\ stdin' = stdin \o line \o (IF terminated THEN <<NL>> ELSE <<>>)
    /\ eof' = ~terminated
    /\ fed' = fed + 1
    /\ UNCHANGED <<eanVars, tokVars, cfgVars, procVars, pc>>

\* the writer writes some text
WriteText(text) ==
    /\ NeedsInput
    /\ fed < MaxFeeds
    /\ stdin' = stdin \o text
    /\ fed' = fed + 1
    /\ UNCHANGED <<eof, eanVars, tokVars, cfgVars, procVars, pc>>

\* the writer closes the stream
CloseInput ==
    /\ NeedsInput
    /\ eof' = TRUE
    /\ UNCHANGED <<stdin, fed, eanVars, tokVars, cfgVars, procVars, pc>>

\* ------------------------------------------- StdinLineIterator.__next__

\* the character the loop "for char in line" takes next
char == stdin[pos + 1]

CanRead == pc = "scan" /\ pos < Len(stdin)

InQuotedSpanNever == FALSE

\* the test "if not self.in_double_quotes" picks the branch of the loop body
InQuotedSpan == in_double_quotes

close_field_overwrite(accumulated, current) ==
    IF current # <<>> THEN <<current>> ELSE accumulated

close_field_keep_empty(accumulated, current) == Append(accumulated, current)

\* if current_field: accumulated_fields.append(current_field)
close_field(accumulated, current) ==
    IF current # <<>> THEN Append(accumulated, current) ELSE accumulated

\* char == ","
IsDelimiter(c) == c = COMMA

\* __next__ is called: its locals start empty
NextEnter ==
    /\ pc = "call"
    /\ accumulated_fields' = <<>>
    /\ current_field' = <<>>
    /\ pc' = "scan"
    /\ UNCHANGED <<pos, in_double_quotes, last_line, fields, rows, stops>>
    /\ UNCHANGED <<eanVars, inVars, cfgVars, procVars>>

\* a newline outside quotes: close the field and return the row
ReadNewline ==
    /\ CanRead
    /\ ~InQuotedSpan
    /\ char = NL
    /\ pos' = pos + 1
    /\ accumulated_fields' = close_field(accumulated_fields, current_field)
    /\ current_field' = <<>>
    /\ fields' = accumulated_fields'
    /\ rows' = Append(rows, fields')
    /\ pc' = "row"
    /\ UNCHANGED <<in_double_quotes, last_line, stops>>
    /\ UNCHANGED <<eanVars, inVars, cfgVars, procVars>>

\* a delimiter outside quotes: close the field
ReadDelimiter ==
    /\ CanRead
    /\ ~InQuotedSpan
    /\ char # NL
    /\ IsDelimiter(char)
    /\ pos' = pos + 1
    /\ accumulated_fields' = close_field(accumulated_fields, current_field)
    /\ current_field' = <<>>
    /\ UNCHANGED <<in_double_quotes, last_line, fields, rows, stops, pc>>
    /\ UNCHANGED <<eanVars, inVars, cfgVars, procVars>>

\* any other character outside quotes: a quote opens a quoted span
ReadUnquoted ==
    /\ CanRead
    /\ ~InQuotedSpan
    /\ char # NL
    /\ ~IsDelimiter(char)
    /\ pos' = pos + 1
    /\ in_double_quotes' = (IF char = QUOTE THEN TRUE ELSE in_double_quotes)
    /\ current_field' = Append(current_field, char)
    /\ UNCHANGED <<accumulated_fields, last_line, fields, rows, stops, pc>>
    /\ UNCHANGED <<eanVars, inVars, cfgVars, procVars>>

\* any character inside quotes: a quote closes the quoted span
ReadQuoted ==
    /\ CanRead
    /\ InQuotedSpan
    /\ pos' = pos + 1
    /\ in_double_quotes' = (IF char = QUOTE THEN FALSE ELSE in_double_quotes)
    /\ current_field' = Append(current_field, char)
    /\ UNCHANGED <<accumulated_fields, last_line, fields, rows, stops, pc>>
    /\ UNCHANGED <<eanVars, inVars, cfgVars, procVars>>

AtEnd == pc = "scan" /\ pos = Len(stdin) /\ eof

ReturnLastRowUnmarked ==
    /\ AtEnd
    /\ ~last_line
    /\ accumulated_fields' = close_field(accumulated_fields, current_field)
    /\ fields' = accumulated_fields'
    /\ rows' = Append(rows, fields')
    /\ pc' = "row"
    /\ UNCHANGED <<pos, in_double_quotes, last_line, current_field, stops>>
    /\ UNCHANGED <<eanVars, inVars, cfgVars, procVars>>

\* the stream is exhausted for the first time: return what was accumulated
ReturnLastRow ==
    /\ AtEnd
    /\ ~last_line
    /\ last_line' = TRUE
    /\ accumulated_fields' = close_field(accumulated_fields, current_field)
    /\ fields' = accumulated_fields'
    /\ rows' = Append(rows, fields')
    /\ pc' = "row"
    /\ UNCHANGED <<pos, in_double_quotes, current_field, stops>>
    /\ UNCHANGED <<eanVars, inVars, cfgVars, procVars>>

\* the stream is exhausted and the last row was returned: StopIteration
RaiseStopIteration ==
    /\ AtEnd
    /\ last_line
    /\ stops' = stops + 1
    /\ pc' = "stop"
    /\ UNCHANGED <<pos, in_double_quotes, last_line, current_field,
                   accumulated_fields, fields, rows>>
    /\ UNCHANGED <<eanVars, inVars, cfgVars, procVars>>

Tokenizer ==
    \/ NextEnter
    \/ ReadNewline
    \/ ReadDelimiter
    \/ ReadUnquoted
    \/ ReadQuoted
    \/ ReturnLastRow
    \/ RaiseStopIteration

\* ------------------------------------------------- tokenizer harness

\* the scenario text a,b,"c,d",e and a newline
TextQuoted ==
    <<"a", COMMA, "b", COMMA, QUOTE, "c", COMMA, "d", QUOTE, COMMA, "e", NL>>

\* the scenario text x,y
TextXY == <<"x", COMMA, "y">>

TokChars == {"a", COMMA, NL, QUOTE}

\* what the harness writes in one piece: one character, or a scenario text
TokTexts == {<<c>> : c \in TokChars} \cup {TextQuoted, TextXY}

\* the caller takes the row and asks for the next
Collect ==
    /\ pc = "row"
    /\ pc' = "call"
    /\ UNCHANGED <<eanVars, inVars, tokVars, cfgVars, procVars>>

\* the caller asks again after StopIteration
RequestAgain ==
    /\ pc = "stop"
    /\ stops < MaxStops
    /\ pc' = "call"
    /\ UNCHANGED <<eanVars, inVars, tokVars, cfgVars, procVars>>

InitTok ==
    /\ ean_code = <<>>
    /\ result = PyFalse
    /\ InitProgram
    /\ delimiter = COMMA
    /\ ean_column_name = <<"e", "a", "n">>

NextTok ==
    \/ \E text \in TokTexts : WriteText(text)
    \/ CloseInput
    \/ Tokenizer
    \/ Collect
    \/ RequestAgain

SpecTok == InitTok /\ [][NextTok]_vars

\* ------------------------------------------------------ process_stdin

\* an uncaught exception ends the process with a traceback and status 1
Crash(exception) ==
    /\ error' = exception
    /\ exit_status' = 1
    /\ pc' = "crashed"

SkipEmptyRowCounted ==
    /\ pc = "row"
    /\ fields = <<>>
    /\ pc' = "call"
    /\ invalid_count' = (IF first_line THEN invalid_count ELSE invalid_count + 1)
    /\ UNCHANGED <<first_line, ean_column_index, valid_count, output,
                   exit_status, error>>
    /\ UNCHANGED <<eanVars, inVars, tokVars, cfgVars>>

\* if not fields: continue
SkipEmptyRow ==
    /\ pc = "row"
    /\ fields = <<>>
    /\ pc' = "call"
    /\ UNCHANGED <<eanVars, inVars, tokVars, cfgVars, procVars>>

\* if first_line: locate the column, or print "0 0" and exit
FirstLine ==
    /\ pc = "row"
    /\ fields # <<>>
    /\ first_line
    /\ LET r == get_ean_column_index(fields, delimiter, ean_column_name)
       IN  IF r.raised # ""
           THEN /\ Crash(r.raised)
                /\ UNCHANGED <<first_line, ean_column_index, valid_count,
                               invalid_count, output>>
           ELSE /\ ean_column_index' = r.index
                /\ valid_count' = r.count
                /\ IF r.index = None
                   THEN /\ output' = Append(output, ZeroZero)
                        /\ exit_status' = 0
                        /\ pc' = "exited"
                        /\ UNCHANGED first_line
                   ELSE /\ first_line' = FALSE
                        /\ pc' = "call"
                        /\ UNCHANGED <<output, exit_status>>
                /\ UNCHANGED <<invalid_count, error>>
    /\ UNCHANGED <<eanVars, inVars, tokVars, cfgVars>>

DataRowFirstColumn ==
    /\ pc = "row"
    /\ fields # <<>>
    /\ ~first_line
    /\ LET v == line_is_valid(fields, delimiter, 0)
       IN  IF v = PyTrue
           THEN /\ valid_count' = valid_count + 1
                /\ pc' = "call"
                /\ UNCHANGED <<invalid_count, exit_status, error>>
           ELSE IF v = PyFalse
           THEN /\ invalid_count' = invalid_count + 1
                /\ pc' = "call"
                /\ UNCHANGED <<valid_count, exit_status, error>>
           ELSE /\ Crash(v)
                /\ UNCHANGED <<valid_count, invalid_count>>
    /\ ean_column_index' = 0
    /\ UNCHANGED <<first_line, output>>
    /\ UNCHANGED <<eanVars, inVars, tokVars, cfgVars>>

\* a row after the first: classify it and count
DataRow ==
    /\ pc = "row"
    /\ fields # <<>>
    /\ ~first_line
    /\ IF ean_column_index = None
       THEN /\ Crash(AssertionError)
            /\ UNCHANGED <<valid_count, invalid_count>>
       ELSE LET v == line_is_valid(fields, delimiter, ean_column_index)
            IN  IF v = PyTrue
                THEN /\ valid_count' = valid_count + 1
                     /\ pc' = "call"
                     /\ UNCHANGED <<invalid_count, exit_status, error>>
                ELSE IF v = PyFalse
                THEN /\ invalid_count' = invalid_count + 1
                     /\ pc' = "call"
                     /\ UNCHANGED <<valid_count, exit_status, error>>
                ELSE /\ Crash(v)
                     /\ UNCHANGED <<valid_count, invalid_count>>
    /\ UNCHANGED <<first_line, ean_column_index, output>>
    /\ UNCHANGED <<eanVars, inVars, tokVars, cfgVars>>

\* the for loop ended: print(f"{valid_count} {invalid_count}")
PrintSummary ==
    /\ pc = "stop"
    /\ output' = Append(output, SummaryLine(valid_count, invalid_count))
    /\ exit_status' = 0
    /\ pc' = "done"
    /\ UNCHANGED <<first_line, ean_column_index, valid_count, invalid_count,
                   error>>
    /\ UNCHANGED <<eanVars, inVars, tokVars, cfgVars>>

\* ------------------------------------------------- inputs of process_stdin

Ean246 == <<"4", "0", "6", "5", "4", "1", "8", "4", "4", "8", "2", "4", "6">>
Ean247 == <<"4", "0", "6", "5", "4", "1", "8", "4", "4", "8", "2", "4", "7">>
EanSup == <<"4", "0", "6", "5", "4", "1", "8", "4", "4", "8", "2", SUP2, "6">>
NameEan == <<"e", "a", "n">>
NameCode == <<"c", "o", "d", "e">>
NameName == <<"n", "a", "m", "e">>
NamePrice == <<"p", "r", "i", "c", "e">>

\* name,ean,price
LineHeader == NameName \o <<COMMA>> \o NameEan \o <<COMMA>> \o NamePrice
\* A,4065418448246,10
LineA == <<"A", COMMA>> \o Ean246 \o <<COMMA, "1", "0">>
\* B,4065418448247,20
LineB == <<"B", COMMA>> \o Ean247 \o <<COMMA, "2", "0">>
\* 4065418448246,X,10
LineHeaderless == Ean246 \o <<COMMA, "X", COMMA, "1", "0">>
\* name,ean,ean,price
LineTwoEan ==
    NameName \o <<COMMA>> \o NameEan \o <<COMMA>> \o NameEan
             \o <<COMMA>> \o NamePrice
\* the header " ean" alone, to be trimmed
LineEanOnly == <<SPACE>> \o NameEan
\* name,code
LineCode == NameName \o <<COMMA>> \o NameCode
\* a row of one short field
LineShort == <<"A">>
\* a 13-character field of digit characters, one of them not decimal
LineSup == EanSup
\* C,"4065418448246"
LineQuoted == <<"C", COMMA, QUOTE>> \o Ean246 \o <<QUOTE>>
\* the line Exit
TextExit == <<"E", "x", "i", "t">>
LineExit == TextExit
\* D, 4065418448246 and a space: the code between spaces
LineSpaced == <<"D", COMMA, SPACE>> \o Ean246 \o <<SPACE>>
\* ,4065418448246,10: an empty first column
LineEmptyFirst == <<COMMA>> \o Ean246 \o <<COMMA, "1", "0">>
\* "4065418448246",X: the code in quotes in the first column
LineQuotedFirst == <<QUOTE>> \o Ean246 \o <<QUOTE, COMMA, "X">>
\* the empty line
LineEmpty == <<>>

LinePool ==
    {LineHeader, LineA, LineB, LineHeaderless, LineTwoEan, LineEanOnly,
     LineCode, LineShort, LineSup, LineQuoted, LineExit, LineSpaced,
     LineEmptyFirst, LineQuotedFirst, LineEmpty}

Delimiters == {COMMA, ";"}
ColumnNames == {NameEan, NameCode}

Init ==
    /\ ean_code = <<>>
    /\ result = PyFalse
    /\ InitProgram
    /\ delimiter \in Delimiters
    /\ ean_column_name \in ColumnNames

Next ==
    \/ \E line \in LinePool, terminated \in BOOLEAN : WriteLine(line, terminated)
    \/ CloseInput
    \/ Tokenizer
    \/ SkipEmptyRow
    \/ FirstLine
    \/ DataRow
    \/ PrintSummary

Spec == Init /\ [][Next]_vars

\* =====================================================================
\* Properties of the validator (checked under SpecEan)
\* =====================================================================

AllDecimal(s) == \A i \in 1..Len(s) : s[i] \in DecimalDigits

\* the check digit of 12 decimal digit characters, written out: positions
\* 0,2,4,... weigh 1 and positions 1,3,5,... weigh 3
RefWeightedSum(s) ==
    int(s[1]) + 3 * int(s[2]) + int(s[3]) + 3 * int(s[4]) + int(s[5])
    + 3 * int(s[6]) + int(s[7]) + 3 * int(s[8]) + int(s[9]) + 3 * int(s[10])
    + int(s[11]) + 3 * int(s[12])

RefCheckDigit(s) ==
    IF RefWeightedSum(s) % 10 = 0 THEN 0 ELSE 10 - (RefWeightedSum(s) % 10)

\* a 13-character string is a valid code: decimal digits, the 13th being
\* the check digit of the first 12
RefValid13(s) ==
    /\ Len(s) = 13
    /\ AllDecimal(s)
    /\ int(s[13]) = RefCheckDigit(SubSeq(s, 1, 12))

\* C1: a string of exactly 13 decimal digits is valid if and only if its
\* 13th digit is the check digit of the first 12 (weights 1,3,1,3,..., sum
\* modulo 10, 0 for remainder 0 and 10 minus the remainder otherwise); and
\* for 12 decimal digits d, calculate_ean_checksum(d) is in 0..9 and d
\* followed by it is valid.
C1_ChecksumDecides13 ==
    /\ (Len(ean_code) = 13 /\ AllDecimal(ean_code)) =>
         /\ result \in {PyTrue, PyFalse}
         /\ result = PyTrue <=>
              int(ean_code[13]) = RefCheckDigit(SubSeq(ean_code, 1, 12))
    /\ (Len(ean_code) = 12 /\ AllDecimal(ean_code)) =>
         LET d == [i \in 1..12 |-> int(ean_code[i])]
             c == calculate_ean_checksum(d)
         IN  /\ c \in 0..9
             /\ c = RefCheckDigit(ean_code)
             /\ ean_is_valid(Append(ean_code, Digit(c))) = PyTrue

\* C1 witness: a valid 13-digit code with two digits other than 0 was validated
C1_Witness ==
    /\ Len(ean_code) = 13
    /\ AllDecimal(ean_code)
    /\ NonZeroCount(ean_code) = 2
    /\ ean_code[13] # "0"
    /\ result = PyTrue

\* C2: a string longer than 13 characters is valid if and only if every
\* character before the last 13 is "0" and the last 13 form a valid code.
C2_LongCodes ==
    Len(ean_code) > 13 =>
        LET n == Len(ean_code) - 13
        IN  result = PyTrue <=>
              /\ \A i \in 1..n : ean_code[i] = "0"
              /\ RefValid13(SubSeq(ean_code, n + 1, Len(ean_code)))

\* C2 witness: a valid code with two "0" prepended was validated as valid
C2_Witness ==
    /\ Len(ean_code) = 15
    /\ NonZeroCount(ean_code) = 2
    /\ result = PyTrue

C4_PaddedShortValid ==
    (Len(ean_code) \in 2..12
     /\ RefValid13(Zeros(13 - Len(ean_code)) \o ean_code)) =>
        result = PyTrue

\* =====================================================================
\* Properties of the tokenizer (checked under SpecTok)
\* =====================================================================

\* position i of s lies outside quotes: an even number of quotes precedes it
RefUnquotedAt(s, i) ==
    Cardinality({j \in 1..(i - 1) : s[j] = QUOTE}) % 2 = 0

RefUnquoted(s, c) == {i \in 1..Len(s) : s[i] = c /\ RefUnquotedAt(s, i)}

SetMax(S) == CHOOSE x \in S : \A y \in S : y <= x
SetMin(S) == CHOOSE x \in S : \A y \in S : x <= y

\* the text after the last newline outside quotes
RefLastSegment(s) ==
    LET nls == RefUnquoted(s, NL)
    IN  IF nls = {} THEN s ELSE SubSeq(s, SetMax(nls) + 1, Len(s))

\* the pieces of s between its commas outside quotes, from position from
RECURSIVE RefPieces(_, _)
RefPieces(s, from) ==
    LET cuts == {i \in RefUnquoted(s, COMMA) : i >= from}
    IN  IF cuts = {} THEN <<SubSeq(s, from, Len(s))>>
        ELSE <<SubSeq(s, from, SetMin(cuts) - 1)>>
             \o RefPieces(s, SetMin(cuts) + 1)

\* the non-empty pieces
RefFields(s) == SelectSeq(RefPieces(s, 1), LAMBDA f : f # <<>>)

\* the row of the scenario a,b,"c,d",e
RowQuoted == << <<"a">>, <<"b">>, <<QUOTE, "c", COMMA, "d", QUOTE>>, <<"e">> >>
RowXY == << <<"x">>, <<"y">> >>

\* one character is consumed by the step
Consumes == pc = "scan" /\ pos' = pos + 1

C5_Step ==
    /\ (Consumes /\ in_double_quotes /\ char \in {COMMA, NL}) =>
         /\ current_field' = Append(current_field, char)
         /\ accumulated_fields' = accumulated_fields
         /\ rows' = rows
         /\ pc' = "scan"
    /\ (Consumes /\ char = QUOTE) =>
         /\ in_double_quotes' = ~in_double_quotes
         /\ current_field' = Append(current_field, QUOTE)

C5_Scenario ==
    (Len(stdin) >= Len(TextQuoted)
     /\ SubSeq(stdin, 1, Len(TextQuoted)) = TextQuoted
     /\ pos >= Len(TextQuoted)) =>
        /\ Len(rows) >= 1
        /\ rows[1] = RowQuoted

\* C5: in the Quoted state a delimiter or newline is appended to the current
\* field and closes neither a field nor a row; every double quote toggles
\* the state and stays in the field text; so a,b,"c,d",e and a newline give
\* the one row a | b | "c,d" | e.
C5_QuotedSpans == [][C5_Step]_vars /\ [](C5_Scenario)

\* C5 witness: the scenario text was tokenized to its four-field row
C5_Witness ==
    /\ stdin = TextQuoted
    /\ pc = "row"
    /\ fields = RowQuoted

\* C6: a tokenizer returns one row per newline consumed outside quotes, then
\* one final row holding what was accumulated after the last such newline
\* (empty when nothing was), and signals exhaustion on every request after
\* that; x,y gives [x,y] then exhaustion, x,y and a newline give [x,y], one
\* empty row, then exhaustion.
C6_RowsThenExhaustion ==
    /\ Len(rows) = Cardinality(RefUnquoted(SubSeq(stdin, 1, pos), NL))
                   + (IF last_line THEN 1 ELSE 0)
    /\ last_line =>
         /\ eof /\ pos = Len(stdin)
         /\ rows[Len(rows)] = RefFields(RefLastSegment(stdin))
    /\ stops > 0 => last_line
    /\ (last_line /\ pc = "scan") => ENABLED RaiseStopIteration
    /\ (stdin = TextXY /\ stops > 0) => rows = <<RowXY>>
    /\ (stdin = TextXY \o <<NL>> /\ stops > 0) => rows = <<RowXY, <<>> >>

\* C6 witness: x,y and a newline gave two rows, and exhaustion was signalled
\* on two requests in a row
C6_Witness ==
    /\ stdin = TextXY \o <<NL>>
    /\ rows = <<RowXY, <<>> >>
    /\ stops = 2

\* =====================================================================
\* Properties of process_stdin (checked under Spec)
\* =====================================================================

\* the 1-based positions of the fields that equal name after trimming
RefMatches(row, name) == {i \in 1..Len(row) : strip(row[i]) = name}

\* the first non-empty row the tokenizer returned, if any
RefHasFirstRow == \E i \in 1..Len(rows) : rows[i] # <<>>
RefFirstRow == rows[SetMin({i \in 1..Len(rows) : rows[i] # <<>>})]

\* the verdict on the field of row at 0-based column k
RefVerdict(row, k) ==
    /\ k < Len(row)
    /\ ean_is_valid(replace_quotes(strip(row[k + 1]))) = PyTrue

\* the loop body is about to handle a non-empty row
AtFirstRow == pc = "row" /\ fields # <<>> /\ first_line
AtDataRow == pc = "row" /\ fields # <<>> /\ ~first_line

\* name,ean,price / A,4065418448246,10 / B,4065418448247,20
InputHeaderAB ==
    LineHeader \o <<NL>> \o LineA \o <<NL>> \o LineB \o <<NL>>

\* 4065418448246,X,10 and a newline
InputHeaderless == LineHeaderless \o <<NL>>

DefaultConfig == delimiter = COMMA /\ ean_column_name = NameEan

C7_Step ==
    /\ (AtFirstRow /\ Cardinality(RefMatches(fields, ean_column_name)) = 1) =>
         /\ ean_column_index' + 1 \in RefMatches(fields, ean_column_name)
         /\ ~first_line'
         /\ valid_count' = 0 /\ invalid_count' = 0
         /\ pc' = "call"
    /\ (AtDataRow /\ pc' = "call") =>
         /\ ean_column_index' = ean_column_index
         /\ IF RefVerdict(fields, ean_column_index)
            THEN valid_count' = valid_count + 1 /\ invalid_count' = invalid_count
            ELSE valid_count' = valid_count /\ invalid_count' = invalid_count + 1

C7_State ==
    /\ (~first_line /\ RefHasFirstRow
        /\ Cardinality(RefMatches(RefFirstRow, ean_column_name)) = 1) =>
         ean_column_index + 1 \in RefMatches(RefFirstRow, ean_column_name)
    /\ (pc = "done" /\ stdin = InputHeaderAB /\ DefaultConfig) =>
         output = << <<"1", SPACE, "1">> >>

\* C7: when exactly one field of the first non-empty row equals the column
\* name after trimming, its index becomes the EAN column, the first row
\* changes neither counter, and every later non-empty row is classified at
\* that index; name,ean,price / A,4065418448246,10 / B,4065418448247,20
\* prints "1 1".
C7_HeaderColumn == [][C7_Step]_vars /\ [](C7_State)

\* C7 witness: the scenario ran to its summary with the column at index 1
C7_Witness ==
    /\ pc = "done"
    /\ stdin = InputHeaderAB
    /\ DefaultConfig
    /\ ean_column_index = 1
    /\ output = << <<"1", SPACE, "1">> >>

C8_Step ==
    (AtFirstRow /\ RefMatches(fields, ean_column_name) = {}
     /\ ean_is_valid(strip(fields[1])) = PyTrue) =>
        /\ ean_column_index' = 0
        /\ ~first_line'
        /\ valid_count' = 1 /\ invalid_count' = 0
        /\ pc' = "call"

C8_State ==
    /\ (~first_line /\ RefHasFirstRow
        /\ RefMatches(RefFirstRow, ean_column_name) = {}) =>
         /\ ean_column_index = 0
         /\ valid_count >= 1
    /\ (pc = "done" /\ stdin = InputHeaderless /\ DefaultConfig) =>
         output = << <<"1", SPACE, "0">> >>

\* C8: when no field of the first non-empty row equals the column name after
\* trimming and its trimmed first field is a valid EAN code, column 0 is used
\* for all later rows and the first row is counted once as valid;
\* 4065418448246,X,10 and a newline print "1 0".
C8_Headerless == [][C8_Step /\ C7_Step]_vars /\ [](C8_State)

\* C8 witness: the headerless scenario ran to its summary
C8_Witness ==
    /\ pc = "done"
    /\ stdin = InputHeaderless
    /\ DefaultConfig
    /\ ean_column_index = 0
    /\ output = << <<"1", SPACE, "0">> >>

C9_Step ==
    (AtFirstRow
     /\ \/ Cardinality(RefMatches(fields, ean_column_name)) > 1
        \/ /\ RefMatches(fields, ean_column_name) = {}
           /\ ean_is_valid(strip(fields[1])) # PyTrue) =>
        /\ output' = <<ZeroZero>>
        /\ exit_status' = 0
        /\ valid_count' = 0 /\ invalid_count' = 0
        /\ pc' = "exited"

\* C9: when the first non-empty row has more than one field equal to the
\* column name after trimming, or none and a trimmed first field that is not
\* a valid EAN code, processing short-circuits: "0 0" is printed, no later
\* row is classified and the process ends with success status.
C9_ShortCircuit == [][C9_Step]_vars

C10_Step ==
    (AtDataRow /\ ean_column_index # None
     /\ Len(fields) < ean_column_index + 1) =>
        /\ invalid_count' = invalid_count + 1
        /\ valid_count' = valid_count
        /\ error' = "" /\ exit_status' = None
        /\ pc' = "call"

\* C10: after the column index is resolved, a non-empty row with fewer fields
\* than the column index plus one adds exactly one to the invalid counter,
\* leaves the valid counter alone, raises nothing and lets processing go on.
C10_ShortRowInvalid == [][C10_Step]_vars

\* C10 witness: a short row between the header and a valid row was counted
\* invalid and the valid row after it was still counted
C10_Witness ==
    /\ pc = "done"
    /\ stdin = LineHeader \o <<NL>> \o LineShort \o <<NL>> \o LineA \o <<NL>>
    /\ DefaultConfig
    /\ output = << <<"1", SPACE, "1">> >>

\* a row that is the line Exit: one field that is Exit after trimming
RefIsExitRow(row) == Len(row) = 1 /\ strip(row[1]) = TextExit

\* name,ean,price / Exit / A,4065418448246,10
InputExit ==
    LineHeader \o <<NL>> \o LineExit \o <<NL>> \o LineA \o <<NL>>

\* C11: a line whose trimmed content is Exit ends processing as if the
\* stream had ended: it is not emitted as a row, changes neither counter, no
\* line after it is tokenized or classified, and the summary reflects only
\* the rows before it.
C11_ExitSentinel ==
    /\ \A i \in 1..Len(rows) : ~RefIsExitRow(rows[i])
    /\ (pc = "done" /\ stdin = InputExit /\ DefaultConfig) =>
         output = << <<"0", SPACE, "0">> >>

C12_Step ==
    (Consumes /\ ~in_double_quotes /\ char # NL) =>
        (char = delimiter <=> current_field' = <<>>)

\* C12: fields are separated at the configured delimiter: outside quotes an
\* occurrence of the delimiter given to process_stdin closes the current
\* field, and a character different from it (also "," when the delimiter is
\* not ",") does not.
C12_ConfiguredDelimiter == [][C12_Step]_vars

\* the process has ended
Terminated == pc \in {"done", "exited", "crashed"}

\* a line <digits> <digits>
RefIsCountLine(l) ==
    \E k \in 2..(Len(l) - 1) :
        /\ l[k] = SPACE
        /\ \A j \in (1..Len(l)) \ {k} : l[j] \in DecimalDigits

\* C13: processing prints exactly one line "<valid_count> <invalid_count>",
\* on the normal and on the short-circuited path, never zero lines and never
\* two, and ends with success status.
C13_OneSummaryLine ==
    /\ ~Terminated => output = <<>>
    /\ Terminated =>
         /\ Len(output) = 1
         /\ RefIsCountLine(output[1])
         /\ exit_status = 0

\* s without the whitespace at its two ends
RefTrimmed(s) ==
    LET keep == {i \in 1..Len(s) : s[i] \notin Whitespace}
    IN  IF keep = {} THEN <<>> ELSE SubSeq(s, SetMin(keep), SetMax(keep))

\* s without its double quotes
RefUnquoted2(s) ==
    LET keep == {i \in 1..Len(s) : s[i] # QUOTE}
        at(k) == CHOOSE i \in keep : Cardinality({j \in keep : j <= i}) = k
    IN  [k \in 1..Cardinality(keep) |-> s[at(k)]]

\* name,ean,price / C,"4065418448246" / D, 4065418448246 and a space
InputQuotedSpaced ==
    LineHeader \o <<NL>> \o LineQuoted \o <<NL>> \o LineSpaced \o <<NL>>

C14_Step ==
    (AtDataRow /\ ean_column_index \in 0..(Len(fields) - 1)) =>
        LET v == ean_is_valid(RefUnquoted2(RefTrimmed(fields[ean_column_index + 1])))
        IN  /\ v = PyTrue =>
                 /\ valid_count' = valid_count + 1
                 /\ invalid_count' = invalid_count
            /\ v = PyFalse =>
                 /\ valid_count' = valid_count
                 /\ invalid_count' = invalid_count + 1
            /\ v \in {PyTrue, PyFalse} <=> pc' = "call"

C14_State ==
    (pc = "done" /\ stdin = InputQuotedSpaced /\ DefaultConfig) =>
        output = << <<"2", SPACE, "0">> >>

\* C14: for a row and an in-range column index the verdict is ean_is_valid of
\* the field at that index, trimmed of surrounding whitespace and then with
\* every double quote removed; a valid code in double quotes or between
\* spaces is classified valid.
C14_TrimThenUnquote == [][C14_Step]_vars /\ [](C14_State)

\* C14 witness: a quoted and a space-surrounded valid code were both counted
\* valid
C14_Witness ==
    /\ pc = "done"
    /\ stdin = InputQuotedSpaced
    /\ DefaultConfig
    /\ output = << <<"2", SPACE, "0">> >>

\* the line whose row __next__ just returned: the text consumed after the
\* last earlier newline outside quotes, without the newline that ended it
RefCurrentLine ==
    LET consumed == SubSeq(stdin, 1, pos)
    IN  IF last_line THEN RefLastSegment(consumed)
        ELSE RefLastSegment(SubSeq(consumed, 1, pos - 1))

\* C15: the tokenizer keeps an empty field before a delimiter or newline as
\* an empty string, so the field at index k of a row is the text of the
\* (k+1)-th delimiter-separated column of its line (and a data row is
\* classified on its EAN column also when an earlier column is empty).
C15_EmptyFieldsKept ==
    (pc = "row" /\ RefCurrentLine # <<>>) =>
        fields = RefPieces(RefCurrentLine, 1)

\* the number of non-empty rows the tokenizer returned
RefNonEmptyRows == Cardinality({i \in 1..Len(rows) : rows[i] # <<>>})

\* an empty line, name,ean,price, A,4065418448246,10
InputEmptyThenHeaderA ==
    <<NL>> \o LineHeader \o <<NL>> \o LineA \o <<NL>>

C16_Step ==
    (pc = "row" /\ fields = <<>>) =>
        /\ UNCHANGED procVars
        /\ pc' = "call"

C16_State ==
    /\ pc = "done" =>
         valid_count + invalid_count =
            IF ~RefHasFirstRow THEN 0
            ELSE RefNonEmptyRows - 1
                 + (IF RefMatches(RefFirstRow, ean_column_name) = {}
                    THEN 1 ELSE 0)
    /\ (pc = "done" /\ stdin = <<>>) => output = <<ZeroZero>>
    /\ (pc = "done" /\ stdin = LineHeader \o <<NL>> /\ DefaultConfig) =>
         output = <<ZeroZero>>

\* C16: empty rows are skipped: they change neither counter and are never
\* taken as the first row; when processing completes without short-circuit
\* valid_count + invalid_count is the number of non-empty rows after the
\* first non-empty row, plus one when the input was headerless; an empty
\* input and a header alone both print "0 0".
C16_CountsNonEmptyRows == [][C16_Step]_vars /\ [](C16_State)

\* C16 witness: an empty line before the header was skipped and the one data
\* row after the header was counted
C16_Witness ==
    /\ pc = "done"
    /\ stdin = InputEmptyThenHeaderA
    /\ DefaultConfig
    /\ RefNonEmptyRows = 2
    /\ Len(rows) = 4
    /\ output = << <<"1", SPACE, "0">> >>

\* 4065418448246,X,10 twice: a headerless first row and one data row
InputHeaderlessTwice ==
    LineHeaderless \o <<NL>> \o LineHeaderless \o <<NL>>

\* C17: no assertion fails for any input of process_stdin: the program never
\* stops on an AssertionError; every field the validator is given, trimmed
\* or trimmed and unquoted, is decided without the 12-digit assertion or the
\* 13-character assertion failing; the first row handed to
\* get_ean_column_index is not empty; a data row is classified only with the
\* column index resolved.
C17_NoAssertionFails ==
    /\ error # AssertionError
    /\ pc = "row" =>
         \A j \in 1..Len(fields) :
            /\ ean_is_valid(RefTrimmed(fields[j])) # AssertionError
            /\ ean_is_valid(RefUnquoted2(RefTrimmed(fields[j])))
                  # AssertionError
    /\ AtFirstRow => Len(fields) > 0
    /\ AtDataRow => ean_column_index # None
    /\ ~first_line => ean_column_index # None

\* C17 witness: the checksum was computed for the headerless first row and
\* for a data row, and the run ended without any error
C17_Witness ==
    /\ pc = "done"
    /\ stdin = InputHeaderlessTwice
    /\ DefaultConfig
    /\ error = ""
    /\ output = << <<"2", SPACE, "0">> >>

\* the index the first non-empty row determines: the matching column, or
\* column 0 of a headerless input
RefResolvedIndex ==
    LET m == RefMatches(RefFirstRow, ean_column_name)
    IN  IF m = {} THEN 0 ELSE SetMin(m) - 1

C18_Step ==
    /\ ean_column_index' # ean_column_index => AtFirstRow
    /\ ~first_line => ~first_line'
    /\ AtDataRow =>
         /\ UNCHANGED <<first_line, ean_column_index, output>>
         /\ UNCHANGED <<inVars, tokVars, cfgVars>>
         /\ pc' = "call" =>
              \/ /\ valid_count' = valid_count + 1
                 /\ invalid_count' = invalid_count
                 /\ line_is_valid(fields, delimiter, RefResolvedIndex) = PyTrue
              \/ /\ valid_count' = valid_count
                 /\ invalid_count' = invalid_count + 1
                 /\ line_is_valid(fields, delimiter, RefResolvedIndex) = PyFalse
         /\ pc' # "call" =>
              UNCHANGED <<valid_count, invalid_count>>

C18_State ==
    /\ first_line => ean_column_index = None
    /\ ~first_line => ean_column_index = RefResolvedIndex

\* C18: the column index is assigned only when the first non-empty row is
\* processed and never afterwards; it stays the index that row determined,
\* every later row is classified at that index, and a data-row step leaves
\* the index, the first-row flag, the output and the tokenizer unchanged
\* and adds one to exactly one of the two counters.
C18_IndexAssignedOnce == [][C18_Step]_vars /\ [](C18_State)

\* C18 witness: two data rows were classified at the index the header gave
C18_Witness ==
    /\ pc = "done"
    /\ stdin = LineHeader \o <<NL>> \o LineB \o <<NL>> \o LineA \o <<NL>>
    /\ DefaultConfig
    /\ ean_column_index = 1
    /\ valid_count = 1
    /\ invalid_count = 1

\* the concatenation, in order, of the sequences of a sequence
RECURSIVE RefConcat(_)
RefConcat(ss) ==
    IF ss = <<>> THEN <<>> ELSE Head(ss) \o RefConcat(Tail(ss))

\* the first n characters of s without the commas and newlines that lie
\* outside quotes
RECURSIVE RefKept(_, _)
RefKept(s, n) ==
    IF n = 0 THEN <<>>
    ELSE IF s[n] \in {COMMA, NL} /\ RefUnquotedAt(s, n)
         THEN RefKept(s, n - 1)
         ELSE Append(RefKept(s, n - 1), s[n])

\* every field of every row returned so far, in order, as one text
RefEmitted == RefConcat([i \in 1..Len(rows) |-> RefConcat(rows[i])])

\* C19: the tokenizer drops, alters or reorders no character other than the
\* commas and newlines it consumes outside quotes: at exhaustion the fields
\* of all rows, concatenated in order, are the input without its unquoted
\* commas and unquoted newlines; while scanning, the returned rows, the
\* closed fields and the open field together are the consumed text without
\* them; and the quoted flag is true exactly when an odd number of
\* double-quote characters has been consumed.
C19_NothingLost ==
    /\ in_double_quotes <=>
         Cardinality({j \in 1..pos : stdin[j] = QUOTE}) % 2 = 1
    /\ stops > 0 => RefEmitted = RefKept(stdin, Len(stdin))
    /\ pc \in {"call", "row"} => RefEmitted = RefKept(stdin, pos)
    /\ pc = "scan" =>
         RefEmitted \o RefConcat(accumulated_fields) \o current_field
            = RefKept(stdin, pos)

\* C19 witness: the scenario text, which ends with a newline, was read to
\* exhaustion; the comma inside quotes and both quotes were kept, the
\* commas outside quotes and the newline were consumed
C19_Witness ==
    /\ stdin = TextQuoted
    /\ stops > 0
    /\ rows = <<RowQuoted, <<>> >>
    /\ RefEmitted = <<"a", "b", QUOTE, "c", COMMA, "d", QUOTE, "e">>

C20_Step ==
    (AtFirstRow /\ RefMatches(fields, ean_column_name) = {}) =>
        ((/\ pc' = "call"
          /\ ean_column_index' = 0
          /\ valid_count' = 1)
         <=> line_is_valid(fields, delimiter, 0) = PyTrue)

\* C20: when no field of the first non-empty row matches the column name,
\* the input is accepted as headerless, the first row counted valid, exactly
\* when line_is_valid at column 0 classifies that row valid.
C20_HeaderlessSameRule == [][C20_Step]_vars

====
